---- MODULE Spec2Model ----
(***************************************************************************)
(* CineVibe movie review application (PWA/app.py, PWA/init_db.py).         *)
(*                                                                         *)
(* The state is the SQLite database (users, films, reviews and the         *)
(* AUTOINCREMENT counters), the uploads directory and, for every browser   *)
(* session, its signed session cookie and the position of the request it   *)
(* has in flight.  A handler is cut into steps only where a write to the   *)
(* database or the filesystem follows an earlier access, which is where    *)
(* requests of other sessions can interleave; the clock is an input of     *)
(* the step that reads it.                                                 *)
(*                                                                         *)
(* Text is a sequence of characters, so that strip(), lower(),             *)
(* int(), rsplit() and COLLATE NOCASE are computed and not assumed.  SQL   *)
(* NULL / Python None in a text column is the empty sequence (a stored     *)
(* file name is never empty: it always starts with the timestamp).         *)
(***************************************************************************)
EXTENDS Integers, Sequences, FiniteSets, TLC

----------------------------------------------------------------------------
(* Bounds of the model.                                                    *)

\* reviews created beyond the seed data
MaxNewReviews == 1

\* the clock reads 0..MaxTime
MaxTime == 1

----------------------------------------------------------------------------
(* Text helpers.                                                           *)
(*                                                                         *)
(* A character is one element of a text.  It is written as itself where a  *)
(* string can hold it visibly, and by its Python escape otherwise (the     *)
(* control characters, the no-break space, the characters beyond Latin-1). *)
(* Beyond ASCII the alphabet is Latin-1, the Unicode spaces and, for the   *)
(* decimal digits of other scripts, the Arabic-Indic digits.               *)

UpperToLower ==
    ("A" :> "a") @@ ("B" :> "b") @@ ("C" :> "c") @@ ("D" :> "d") @@
    ("E" :> "e") @@ ("F" :> "f") @@ ("G" :> "g") @@ ("H" :> "h") @@
    ("I" :> "i") @@ ("J" :> "j") @@ ("K" :> "k") @@ ("L" :> "l") @@
    ("M" :> "m") @@ ("N" :> "n") @@ ("O" :> "o") @@ ("P" :> "p") @@
    ("Q" :> "q") @@ ("R" :> "r") @@ ("S" :> "s") @@ ("T" :> "t") @@
    ("U" :> "u") @@ ("V" :> "v") @@ ("W" :> "w") @@ ("X" :> "x") @@
    ("Y" :> "y") @@ ("Z" :> "z")

\* the uppercase letters outside ASCII, with their str.lower()
Latin1UpperToLower ==
    ("À" :> "à") @@ ("Á" :> "á") @@ ("Â" :> "â") @@ ("Ã" :> "ã") @@
    ("Ä" :> "ä") @@ ("Å" :> "å") @@ ("Æ" :> "æ") @@ ("Ç" :> "ç") @@
    ("È" :> "è") @@ ("É" :> "é") @@ ("Ê" :> "ê") @@ ("Ë" :> "ë") @@
    ("Ì" :> "ì") @@ ("Í" :> "í") @@ ("Î" :> "î") @@ ("Ï" :> "ï") @@
    ("Ð" :> "ð") @@ ("Ñ" :> "ñ") @@ ("Ò" :> "ò") @@ ("Ó" :> "ó") @@
    ("Ô" :> "ô") @@ ("Õ" :> "õ") @@ ("Ö" :> "ö") @@ ("Ø" :> "ø") @@
    ("Ù" :> "ù") @@ ("Ú" :> "ú") @@ ("Û" :> "û") @@ ("Ü" :> "ü") @@
    ("Ý" :> "ý") @@ ("Þ" :> "þ")

Digits == <<"0", "1", "2", "3", "4", "5", "6", "7", "8", "9">>

\* decimal digits outside ASCII, by value
ArabicIndicDigits ==
    <<"\\u0660", "\\u0661", "\\u0662", "\\u0663", "\\u0664", "\\u0665",
    "\\u0666", "\\u0667", "\\u0668", "\\u0669">>

\* characters that str.isdigit() holds for and int() rejects
SuperscriptDigits == {"²", "³", "¹"}

\* the characters that str.isspace() holds for: what str.strip() removes and
\* str.split() separates on
Whitespace ==
    {"\t", "\n", "\\x0b", "\f", "\r", "\\x1c", "\\x1d", "\\x1e", "\\x1f",
    " ", "\\x85", "\\xa0", "\\u1680", "\\u2000", "\\u2001", "\\u2002",
    "\\u2003", "\\u2004", "\\u2005", "\\u2006", "\\u2007", "\\u2008",
    "\\u2009", "\\u200a", "\\u2028", "\\u2029", "\\u202f", "\\u205f",
    "\\u3000"}

\* the separators among them, which int() does not strip
IntKeeps == {"\\x1c", "\\x1d", "\\x1e", "\\x1f"}

\* the characters that int() strips
IntWhitespace == Whitespace \ IntKeeps

\* the character U+0000
NUL == "\\x00"

\* the folding of COLLATE NOCASE: the 26 letters of ASCII only
NoCaseChar(ch) == IF ch \in DOMAIN UpperToLower THEN UpperToLower[ch] ELSE ch

LowerChar(ch) ==
    IF ch \in DOMAIN UpperToLower THEN UpperToLower[ch]
    ELSE IF ch \in DOMAIN Latin1UpperToLower THEN Latin1UpperToLower[ch]
    ELSE ch

\* str.isupper() of one character
IsUpperChar(ch) ==
    ch \in DOMAIN UpperToLower \/ ch \in DOMAIN Latin1UpperToLower

\* the characters that str.isdecimal() holds for: the digits of int()
DecimalChars ==
    {Digits[i] : i \in 1..10} \cup {ArabicIndicDigits[i] : i \in 1..10}

\* the characters that str.isdigit() holds for
DigitChars == DecimalChars \cup SuperscriptDigits

IsDigitChar(ch) == ch \in DigitChars

DigitVal(ch) ==
    (CHOOSE i \in 1..10 : Digits[i] = ch \/ ArabicIndicDigits[i] = ch) - 1

\* str.lower()
Lower(s) == [i \in 1..Len(s) |-> LowerChar(s[i])]

\* a text with the letters of ASCII folded, as COLLATE NOCASE folds them
NoCase(s) == [i \in 1..Len(s) |-> NoCaseChar(s[i])]

\* s without its leading characters that are in chars
LStripOf(s, chars) ==
    IF \A i \in 1..Len(s) : s[i] \in chars THEN <<>>
    ELSE SubSeq(s, CHOOSE i \in 1..Len(s) :
                       /\ s[i] \notin chars
                       /\ \A j \in 1..(i - 1) : s[j] \in chars,
                Len(s))

\* s without its trailing characters that are in chars
RStripOf(s, chars) ==
    IF \A i \in 1..Len(s) : s[i] \in chars THEN <<>>
    ELSE SubSeq(s, 1, CHOOSE i \in 1..Len(s) :
                          /\ s[i] \notin chars
                          /\ \A j \in (i + 1)..Len(s) : s[j] \in chars)

LStrip(s) == LStripOf(s, Whitespace)

RStrip(s) == RStripOf(s, Whitespace)

\* str.strip()
Strip(s) == RStrip(LStrip(s))

\* the characters of s that are in keep, in order
FilterChars(s, keep) ==
    LET Kept(ch) == ch \in keep
    IN  SelectSeq(s, Kept)

\* str(n) for n >= 0
RECURSIVE IntToStr(_)
IntToStr(n) ==
    IF n < 10 THEN <<Digits[n + 1]>>
    ELSE IntToStr(n \div 10) \o <<Digits[(n % 10) + 1]>>

\* the digit values of a numeral, leading zeros dropped
Significant(s) ==
    LET t == LStripOf(s, {Digits[1], ArabicIndicDigits[1]})
    IN  [i \in 1..Len(t) |-> DigitVal(t[i])]

\* the integer with the digit values d, on top of acc
RECURSIVE DigitsValue(_, _)
DigitsValue(d, acc) ==
    IF d = <<>> THEN acc
    ELSE DigitsValue(Tail(d), 10 * acc + Head(d))

\* sys.get_int_max_str_digits(): the longest numeral that int() converts
MaxStrDigits == 4300

\* the digit values of 2^63 - 1, the largest INTEGER of SQLite
Int64Max == <<9, 2, 2, 3, 3, 7, 2, 0, 3, 6, 8, 5, 4, 7, 7, 5, 8, 0, 7>>

\* a <= b for numerals of one length, digit by digit
RECURSIVE NumeralLeq(_, _)
NumeralLeq(a, b) ==
    \/ a = <<>>
    \/ Head(a) < Head(b)
    \/ Head(a) = Head(b) /\ NumeralLeq(Tail(a), Tail(b))

\* the magnitude d of an integer can be bound to a parameter of a
\* statement: it is at most 2^63 - 1, or 2^63 for a negative integer
FitsInt64(d, negative) ==
    \/ Len(d) < Len(Int64Max)
    \/ Len(d) = Len(Int64Max) /\ NumeralLeq(d, Int64Max)
    \/ negative /\ d = [Int64Max EXCEPT ![Len(Int64Max)] = @ + 1]

\* int(s): surrounding whitespace, an optional sign, decimal digits with
\* single underscores allowed between digits; anything else is ValueError,
\* and so is a numeral of more than MaxStrDigits digits, leading zeros
\* counted.  A magnitude of ten digits or more is kept as 10^9, which is
\* beyond every id and rating; int64 tells whether the integer fits an
\* SQLite INTEGER.
PyInt(s) ==
    LET t == RStripOf(LStripOf(s, IntWhitespace), IntWhitespace)
        signed == t # <<>> /\ Head(t) \in {"+", "-"}
        negative == signed /\ Head(t) = "-"
        body == IF signed THEN Tail(t) ELSE t
        wellFormed ==
            /\ body # <<>>
            /\ body[1] \in DecimalChars /\ body[Len(body)] \in DecimalChars
            /\ \A i \in 1..Len(body) :
                   body[i] \in DecimalChars \/ body[i] = "_"
            /\ \A i \in 1..(Len(body) - 1) :
                   ~(body[i] = "_" /\ body[i + 1] = "_")
        digits == FilterChars(body, DecimalChars)
        d == Significant(digits)
        mag == IF Len(d) > 9 THEN 10 ^ 9 ELSE DigitsValue(d, 0)
    IN  IF ~wellFormed \/ Len(digits) > MaxStrDigits
        THEN [ok |-> FALSE, val |-> 0, int64 |-> TRUE]
        ELSE [ok |-> TRUE,
              val |-> IF negative THEN 0 - mag ELSE mag,
              int64 |-> FitsInt64(d, negative)]

\* the int n as PyInt gives it
PyIntOf(n) == [ok |-> TRUE, val |-> n, int64 |-> TRUE]

----------------------------------------------------------------------------
(* File upload configuration.                                              *)

ALLOWED_EXTENSIONS ==
    {<<"p", "n", "g">>, <<"j", "p", "g">>, <<"j", "p", "e", "g">>, <<"g", "i", "f">>}

\* index of the last "." of s, 0 if there is none
LastDot(s) ==
    IF \E i \in 1..Len(s) : s[i] = "."
    THEN CHOOSE i \in 1..Len(s) :
             s[i] = "." /\ \A j \in (i + 1)..Len(s) : s[j] # "."
    ELSE 0

\* a test for a dot only
allowed_file_AnyExtension(filename) == LastDot(filename) # 0

allowed_file(filename) ==
    /\ LastDot(filename) # 0
    /\ Lower(SubSeq(filename, LastDot(filename) + 1, Len(filename)))
           \in ALLOWED_EXTENSIONS

FilenameChars ==
    DOMAIN UpperToLower \cup {UpperToLower[u] : u \in DOMAIN UpperToLower}
        \cup {Digits[i] : i \in 1..10} \cup {"_", ".", "-"}

\* unicodedata.normalize("NFKD", ch).encode("ascii", "ignore") for the
\* characters outside ASCII that it does not drop
NFKDAscii ==
    ("\\xa0" :> <<" ">>) @@ ("¨" :> <<" ">>) @@ ("ª" :> <<"a">>) @@
    ("¯" :> <<" ">>) @@ ("²" :> <<"2">>) @@ ("³" :> <<"3">>) @@
    ("´" :> <<" ">>) @@ ("¸" :> <<" ">>) @@ ("¹" :> <<"1">>) @@
    ("º" :> <<"o">>) @@ ("¼" :> <<"1", "4">>) @@ ("½" :> <<"1", "2">>) @@
    ("¾" :> <<"3", "4">>) @@ ("À" :> <<"A">>) @@ ("Á" :> <<"A">>) @@
    ("Â" :> <<"A">>) @@ ("Ã" :> <<"A">>) @@ ("Ä" :> <<"A">>) @@
    ("Å" :> <<"A">>) @@ ("Ç" :> <<"C">>) @@ ("È" :> <<"E">>) @@
    ("É" :> <<"E">>) @@ ("Ê" :> <<"E">>) @@ ("Ë" :> <<"E">>) @@
    ("Ì" :> <<"I">>) @@ ("Í" :> <<"I">>) @@ ("Î" :> <<"I">>) @@
    ("Ï" :> <<"I">>) @@ ("Ñ" :> <<"N">>) @@ ("Ò" :> <<"O">>) @@
    ("Ó" :> <<"O">>) @@ ("Ô" :> <<"O">>) @@ ("Õ" :> <<"O">>) @@
    ("Ö" :> <<"O">>) @@ ("Ù" :> <<"U">>) @@ ("Ú" :> <<"U">>) @@
    ("Û" :> <<"U">>) @@ ("Ü" :> <<"U">>) @@ ("Ý" :> <<"Y">>) @@
    ("à" :> <<"a">>) @@ ("á" :> <<"a">>) @@ ("â" :> <<"a">>) @@
    ("ã" :> <<"a">>) @@ ("ä" :> <<"a">>) @@ ("å" :> <<"a">>) @@
    ("ç" :> <<"c">>) @@ ("è" :> <<"e">>) @@ ("é" :> <<"e">>) @@
    ("ê" :> <<"e">>) @@ ("ë" :> <<"e">>) @@ ("ì" :> <<"i">>) @@
    ("í" :> <<"i">>) @@ ("î" :> <<"i">>) @@ ("ï" :> <<"i">>) @@
    ("ñ" :> <<"n">>) @@ ("ò" :> <<"o">>) @@ ("ó" :> <<"o">>) @@
    ("ô" :> <<"o">>) @@ ("õ" :> <<"o">>) @@ ("ö" :> <<"o">>) @@
    ("ù" :> <<"u">>) @@ ("ú" :> <<"u">>) @@ ("û" :> <<"u">>) @@
    ("ü" :> <<"u">>) @@ ("ý" :> <<"y">>) @@ ("ÿ" :> <<"y">>) @@
    ("\\u2000" :> <<" ">>) @@ ("\\u2001" :> <<" ">>) @@
    ("\\u2002" :> <<" ">>) @@ ("\\u2003" :> <<" ">>) @@
    ("\\u2004" :> <<" ">>) @@ ("\\u2005" :> <<" ">>) @@
    ("\\u2006" :> <<" ">>) @@ ("\\u2007" :> <<" ">>) @@
    ("\\u2008" :> <<" ">>) @@ ("\\u2009" :> <<" ">>) @@
    ("\\u200a" :> <<" ">>) @@ ("\\u202f" :> <<" ">>) @@
    ("\\u205f" :> <<" ">>) @@ ("\\u3000" :> <<" ">>)

\* the characters outside ASCII that it drops
NFKDDropped ==
    {"\\x80", "\\x81", "\\x82", "\\x83", "\\x84", "\\x85", "\\x86", "\\x87",
    "\\x88", "\\x89", "\\x8a", "\\x8b", "\\x8c", "\\x8d", "\\x8e", "\\x8f",
    "\\x90", "\\x91", "\\x92", "\\x93", "\\x94", "\\x95", "\\x96", "\\x97",
    "\\x98", "\\x99", "\\x9a", "\\x9b", "\\x9c", "\\x9d", "\\x9e", "\\x9f",
    "¡", "¢", "£", "¤", "¥", "¦", "§", "©", "«", "¬", "\\xad", "®", "°",
    "±", "µ", "¶", "·", "»", "¿", "Æ", "Ð", "×", "Ø", "Þ", "ß", "æ", "ð",
    "÷", "ø", "þ", "\\u1680", "\\u2028", "\\u2029", "\\u0660", "\\u0661",
    "\\u0662", "\\u0663", "\\u0664", "\\u0665", "\\u0666", "\\u0667",
    "\\u0668", "\\u0669"}

\* the texts of a sequence, one after the other
RECURSIVE Concat(_)
Concat(ss) ==
    IF Len(ss) = 0 THEN <<>>
    ELSE IF Len(ss) = 1 THEN ss[1]
    ELSE Concat(SubSeq(ss, 1, Len(ss) \div 2))
         \o Concat(SubSeq(ss, Len(ss) \div 2 + 1, Len(ss)))

\* a name normalised to NFKD and encoded to ASCII, errors ignored
ToAscii(s) ==
    Concat([i \in 1..Len(s) |->
               IF s[i] \in DOMAIN NFKDAscii THEN NFKDAscii[s[i]]
               ELSE IF s[i] \in NFKDDropped THEN <<>>
               ELSE <<s[i]>>])

\* "_".join(s.split()): runs of whitespace become one "_", none at the ends
JoinWords(s) ==
    LET t == LStrip(s)
    IN  Concat([i \in 1..Len(t) |->
                   IF t[i] \in Whitespace THEN <<>>
                   ELSE IF i > 1 /\ t[i - 1] \in Whitespace
                   THEN <<"_", t[i]>>
                   ELSE <<t[i]>>])

\* str.strip("._")
StripDotUnderscore(s) == RStripOf(LStripOf(s, {".", "_"}), {".", "_"})

\* werkzeug.utils.secure_filename: the name is normalised to ASCII, path
\* separators become spaces, words are joined by "_", characters outside
\* [A-Za-z0-9_.-] are dropped, leading and trailing "." and "_" are stripped
secure_filename(filename) ==
    LET ascii == ToAscii(filename)
        noSep == [i \in 1..Len(ascii) |->
                     IF ascii[i] = "/" THEN " " ELSE ascii[i]]
        joined == JoinWords(noSep)
    IN  StripDotUnderscore(FilterChars(joined, FilenameChars))

\* f"{int(time.time())}_{filename}"
StoredName(t, filename) == IntToStr(t) \o <<"_">> \o secure_filename(filename)

----------------------------------------------------------------------------
(* Text constants: seed data of init_db.py and the inputs of the model.    *)

S_alice == <<"a", "l", "i", "c", "e">>

S_bob == <<"b", "o", "b">>

S_charlie == <<"c", "h", "a", "r", "l", "i", "e">>

S_dave == <<"d", "a", "v", "e">>

S_dave_padded == <<" ", "d", "a", "v", "e">>

S_erin_padded == <<" ", "e", "r", "i", "n">>

S_password123 == <<"p", "a", "s", "s", "w", "o", "r", "d", "1", "2", "3">>

S_Passw0rd == <<"P", "a", "s", "s", "w", "0", "r", "d">>

S_abc == <<"a", "b", "c">>

S_new == <<"n", "e", "w">>

S_Ok == <<"O", "k">>

S_blank == <<" ">>

S_Dune == <<"D", "u", "n", "e">>

S_dune == <<"d", "u", "n", "e">>

S_the_matrix == <<"t", "h", "e", " ", "m", "a", "t", "r", "i", "x">>

S_a_PNG == <<"a", ".", "P", "N", "G">>

S_evil_exe == <<"e", "v", "i", "l", ".", "e", "x", "e">>

S_cafe_png == <<"c", "a", "f", "é", ".", "p", "n", "g">>

S_crlf == <<"\r", "\n">>

S_passwErd1 == <<"p", "a", "s", "s", "w", "É", "r", "d", "1">>

\* the numeral of 2^63
S_2_63 ==
    <<"9", "2", "2", "3", "3", "7", "2", "0", "3", "6", "8", "5", "4", "7",
      "7", "5", "8", "0", "8">>

S_png == <<"p", "n", "g">>

\* two titles that differ after a NUL only
S_a_nul_b == <<"a", NUL, "b">>

S_a_nul_c == <<"a", NUL, "c">>

\* the longest numeral that int() converts, and one digit more
S_nines_4300 == [i \in 1..MaxStrDigits |-> "9"]

S_nines_4301 == [i \in 1..(MaxStrDigits + 1) |-> "9"]

Null == <<>>

----------------------------------------------------------------------------
(* Password hashing (werkzeug.security).  The hash function is ideal: the  *)
(* digest determines the salt and the password.                            *)

Salts == {"salt1", "salt2"}

generate_password_hash(password, salt) ==
    [salt |-> salt, hash |-> <<salt, password>>]

\* a verification that accepts every password
check_password_hash_Any(pwhash, password) == TRUE

check_password_hash(pwhash, password) ==
    pwhash.hash = <<pwhash.salt, password>>

----------------------------------------------------------------------------
(* Database schema and seed data (init_db.py).                             *)

\* the limits of a rating, in add_review() and in the CHECK of the reviews
\* table alike
MinRating == 1

\* an upper bound that is off by one
MaxRating_Six == MinRating + 5

MaxRating == 5

SecondsPerDay == 86400

\* reviews.rating CHECK(rating >= 1 AND rating <= 5)
RatingCheck(rating) == rating >= MinRating /\ rating <= MaxRating

\* get_db_connection never issues PRAGMA foreign_keys = ON, and SQLite
\* leaves foreign keys unenforced by default
ForeignKeysOn == FALSE

SeedUsernames == <<S_alice, S_bob, S_charlie>>

SeedFilmTitles ==
    <<<<"T", "h", "e", " ", "M", "a", "t", "r", "i", "x">>,
      <<"I", "n", "c", "e", "p", "t", "i", "o", "n">>,
      <<"I", "n", "t", "e", "r", "s", "t", "e", "l", "l", "a", "r">>,
      <<"T", "h", "e", " ", "S", "h", "a", "w", "s", "h", "a", "n", "k", " ", "R", "e", "d", "e", "m", "p", "t", "i", "o", "n">>,
      <<"P", "u", "l", "p", " ", "F", "i", "c", "t", "i", "o", "n">>,
      <<"T", "h", "e", " ", "D", "a", "r", "k", " ", "K", "n", "i", "g", "h", "t">>,
      <<"F", "o", "r", "r", "e", "s", "t", " ", "G", "u", "m", "p">>,
      <<"F", "i", "g", "h", "t", " ", "C", "l", "u", "b">>,
      <<"T", "h", "e", " ", "G", "o", "d", "f", "a", "t", "h", "e", "r">>,
      <<"G", "o", "o", "d", "f", "e", "l", "l", "a", "s">>>>

\* sample_reviews, with the user and the film already looked up
SeedReviews ==
    <<[title |-> <<"M", "i", "n", "d", "-", "b", "e", "n", "d", "i", "n", "g", " ", "m", "a", "s", "t", "e", "r", "p", "i", "e", "c", "e">>,
       content |->
         <<"T", "h", "e", " ", "M", "a", "t", "r", "i", "x", " ", "r", "e",
         "d", "e", "f", "i", "n", "e", "d", " ", "s", "c", "i", "-", "f",
         "i", " ", "c", "i", "n", "e", "m", "a", ".", " ", "T", "h", "e",
         " ", "a", "c", "t", "i", "o", "n", " ", "s", "e", "q", "u", "e",
         "n", "c", "e", "s", " ", "a", "r", "e", " ", "g", "r", "o", "u",
         "n", "d", "b", "r", "e", "a", "k", "i", "n", "g", " ", "a", "n",
         "d", " ", "t", "h", "e", " ", "p", "h", "i", "l", "o", "s", "o",
         "p", "h", "i", "c", "a", "l", " ", "t", "h", "e", "m", "e", "s",
         " ", "a", "r", "e", " ", "t", "h", "o", "u", "g", "h", "t", "-",
         "p", "r", "o", "v", "o", "k", "i", "n", "g", ".", " ", "A", " ",
         "m", "u", "s", "t", "-", "w", "a", "t", "c", "h", " ", "f", "o",
         "r", " ", "a", "n", "y", " ", "f", "i", "l", "m", " ", "e", "n",
         "t", "h", "u", "s", "i", "a", "s", "t", ".">>,
       rating |-> 5, user |-> 1, film |-> 1],
      [title |-> <<"N", "o", "l", "a", "n", "'", "s", " ", "b", "e", "s", "t", " ", "w", "o", "r", "k">>,
       content |->
         <<"I", "n", "c", "e", "p", "t", "i", "o", "n", " ", "i", "s", " ",
         "a", " ", "v", "i", "s", "u", "a", "l", "l", "y", " ", "s", "t",
         "u", "n", "n", "i", "n", "g", " ", "j", "o", "u", "r", "n", "e",
         "y", " ", "t", "h", "r", "o", "u", "g", "h", " ", "d", "r", "e",
         "a", "m", "s", " ", "w", "i", "t", "h", "i", "n", " ", "d", "r",
         "e", "a", "m", "s", ".", " ", "T", "h", "e", " ", "c", "o", "n",
         "c", "e", "p", "t", " ", "i", "s", " ", "b", "r", "i", "l", "l",
         "i", "a", "n", "t", " ", "a", "n", "d", " ", "t", "h", "e", " ",
         "e", "x", "e", "c", "u", "t", "i", "o", "n", " ", "i", "s", " ",
         "f", "l", "a", "w", "l", "e", "s", "s", ".", " ", "H", "a", "n",
         "s", " ", "Z", "i", "m", "m", "e", "r", "'", "s", " ", "s", "c",
         "o", "r", "e", " ", "e", "l", "e", "v", "a", "t", "e", "s", " ",
         "e", "v", "e", "r", "y", " ", "s", "c", "e", "n", "e", ".">>,
       rating |-> 5, user |-> 2, film |-> 2],
      [title |-> <<"S", "p", "a", "c", "e", " ", "e", "p", "i", "c", " ", "d", "o", "n", "e", " ", "r", "i", "g", "h", "t">>,
       content |->
         <<"I", "n", "t", "e", "r", "s", "t", "e", "l", "l", "a", "r", " ",
         "c", "o", "m", "b", "i", "n", "e", "s", " ", "h", "a", "r", "d",
         " ", "s", "c", "i", "e", "n", "c", "e", " ", "w", "i", "t", "h",
         " ", "e", "m", "o", "t", "i", "o", "n", "a", "l", " ", "s", "t",
         "o", "r", "y", "t", "e", "l", "l", "i", "n", "g", ".", " ", "T",
         "h", "e", " ", "v", "i", "s", "u", "a", "l", "s", " ", "a", "r",
         "e", " ", "b", "r", "e", "a", "t", "h", "t", "a", "k", "i", "n",
         "g", " ", "a", "n", "d", " ", "t", "h", "e", " ", "e", "n", "d",
         "i", "n", "g", " ", "i", "s", " ", "b", "o", "t", "h", " ", "c",
         "o", "n", "f", "u", "s", "i", "n", "g", " ", "a", "n", "d", " ",
         "b", "e", "a", "u", "t", "i", "f", "u", "l", ".", " ", "N", "o",
         "t", " ", "p", "e", "r", "f", "e", "c", "t", " ", "b", "u", "t",
         " ", "d", "e", "f", "i", "n", "i", "t", "e", "l", "y", " ", "w",
         "o", "r", "t", "h", " ", "w", "a", "t", "c", "h", "i", "n", "g",
         ".">>,
       rating |-> 4, user |-> 3, film |-> 3]>>

\* date('now'): the day of the clock
DateOf(t) == t \div SecondsPerDay

----------------------------------------------------------------------------
(* State.                                                                  *)

Sessions == {"s1", "s2"}

VARIABLES
    users,            \* rows of table users
    films,            \* rows of table films
    reviews,          \* rows of table reviews
    sqlite_sequence,  \* AUTOINCREMENT: largest id ever used, per table
    uploads,          \* names of the files in static/uploads
    session,          \* session cookie of each browser session
    pc,               \* position of the request each session has in flight
    req,              \* that request: its form and the handler's locals
    last,             \* the response completed most recently
    deleted           \* ids of the reviews a delete request has removed

vars == <<users, films, reviews, sqlite_sequence, uploads, session, pc, req,
          last, deleted>>

db == <<users, films, reviews, sqlite_sequence>>

NoSession == [k \in {} |-> 0]

NoReq == [op |-> "none"]

Init ==
    /\ users = {[id |-> i, username |-> SeedUsernames[i],
                 password |-> generate_password_hash(S_password123, "seed")]
                : i \in 1..Len(SeedUsernames)}
    /\ films = {[id |-> i, title |-> SeedFilmTitles[i]]
                : i \in 1..Len(SeedFilmTitles)}
    /\ reviews = {[id |-> i, title |-> SeedReviews[i].title,
                   rating |-> SeedReviews[i].rating,
                   content |-> SeedReviews[i].content,
                   date |-> DateOf(0), user_id |-> SeedReviews[i].user,
                   film_id |-> SeedReviews[i].film, photo |-> Null]
                  : i \in {j \in 1..Len(SeedReviews) :
                              RatingCheck(SeedReviews[j].rating)}}
    /\ sqlite_sequence = [users |-> Len(SeedUsernames),
                          films |-> Len(SeedFilmTitles),
                          reviews |-> Len(SeedReviews)]
    /\ uploads = {}
    /\ session = [c \in Sessions |-> NoSession]
    /\ pc = [c \in Sessions |-> "idle"]
    /\ req = [c \in Sessions |-> NoReq]
    /\ last = [op |-> "none", outcome |-> "none"]
    /\ deleted = {}

----------------------------------------------------------------------------
(* Queries.                                                                *)

\* a lookup that finds no row
UsersNamed_None(username) == {}

\* SELECT ... FROM users WHERE username = ?   (BINARY collation)
UsersNamed(username) == {u \in users : u.username = username}

\* the characters of three bytes in UTF-8: the spaces beyond Latin-1
ThreeByteChars ==
    {"\\u1680", "\\u2000", "\\u2001", "\\u2002", "\\u2003", "\\u2004",
    "\\u2005", "\\u2006", "\\u2007", "\\u2008", "\\u2009", "\\u200a",
    "\\u2028", "\\u2029", "\\u202f", "\\u205f", "\\u3000"}

\* the characters outside ASCII
NonAsciiChars == DOMAIN NFKDAscii \cup NFKDDropped

\* the number of bytes of a text in UTF-8, the encoding of the database: a
\* character outside ASCII has two bytes, or three
Utf8Len(s) ==
    Len(s)
    + Cardinality({i \in 1..Len(s) : s[i] \in NonAsciiChars})
    + Cardinality({i \in 1..Len(s) : s[i] \in ThreeByteChars})

\* a = b COLLATE NOCASE: texts of one length in bytes that agree, the
\* letters of ASCII folded, up to and including the first NUL; the
\* comparison reads no further than that (sqlite3StrNICmp)
NoCaseEqual(a, b) ==
    LET n == IF \E i \in 1..Len(a) : a[i] = NUL
             THEN CHOOSE i \in 1..Len(a) :
                      a[i] = NUL /\ \A j \in 1..(i - 1) : a[j] # NUL
             ELSE Len(a)
    IN  /\ n <= Len(b)
        /\ \A i \in 1..n : NoCaseChar(a[i]) = NoCaseChar(b[i])
        /\ Utf8Len(a) = Utf8Len(b)

\* the lookup without COLLATE NOCASE
FilmsNoCase_Binary(rows, title) == {f \in rows : f.title = title}

\* SELECT id FROM films WHERE title = ? COLLATE NOCASE
FilmsNoCase(rows, title) == {f \in rows : NoCaseEqual(f.title, title)}

\* the lookup without its WHERE clause
FilmsById_Any(film_id) == films

\* SELECT id FROM films WHERE id = ?
FilmsById(film_id) == {f \in films : f.id = film_id}

\* SELECT * FROM reviews WHERE id = ?
ReviewsById(review_id) == {r \in reviews : r.id = review_id}

\* a DELETE whose effect is never committed
DeleteFrom_NotCommitted(rows, review_id) == rows

\* DELETE FROM reviews WHERE id = ?, committed
DeleteFrom(rows, review_id) == {r \in rows : r.id # review_id}

\* fetchone() of a scan in rowid order
FirstId(rows) == CHOOSE i \in {r.id : r \in rows} : \A r \in rows : i <= r.id

\* reviews JOIN users JOIN films: the rows whose user and film exist
Joined ==
    {r \in reviews : /\ \E u \in users : u.id = r.user_id
                     /\ \E f \in films : f.id = r.film_id}

\* home(): the ids of the listing (ORDER BY reviews.id DESC is immaterial
\* for membership)
HomeListing == {r.id : r \in Joined}

\* view_review(): the joined row with this id, if any
ViewRows(review_id) == {r \in Joined : r.id = review_id}

----------------------------------------------------------------------------
(* Requests.                                                               *)

\* the login check left out
LoggedIn_Skipped(c) == TRUE

\* if "user_id" not in session
LoggedIn(c) == "user_id" \in DOMAIN session[c]

\* session["user_id"] raises KeyError when the key is absent
KeyError(sess, key) == key \notin DOMAIN sess

\* the ownership check left out
IsOwner_Skipped(review, sess) == TRUE

\* if review["user_id"] != session["user_id"]
IsOwner(review, sess) == review.user_id = sess.user_id

\* register(): the three password rules, in order
PasswordError(raw_password) ==
    IF Len(raw_password) < 6 THEN "password_too_short"
    ELSE IF ~\E i \in 1..Len(raw_password) : IsUpperChar(raw_password[i])
    THEN "password_no_uppercase"
    ELSE IF ~\E i \in 1..Len(raw_password) : IsDigitChar(raw_password[i])
    THEN "password_no_digit"
    ELSE "ok"

\* the range test left out
RatingValid_NoRange(rating) == PyInt(rating).ok

\* add_review(): rating = int(rating); 1 <= rating <= 5, else ValueError
RatingValid(rating) ==
    LET n == PyInt(rating)
    IN  n.ok /\ ~(n.val < MinRating \/ n.val > MaxRating)

\* a response is sent: the request is over
Respond(c, op, outcome) ==
    /\ last' = [op |-> op, outcome |-> outcome]
    /\ pc' = [pc EXCEPT ![c] = "idle"]
    /\ req' = [req EXCEPT ![c] = NoReq]

\* the handler goes on to its next database or filesystem access
Continue(c, at, r) ==
    /\ pc' = [pc EXCEPT ![c] = at]
    /\ req' = [req EXCEPT ![c] = r]
    /\ last' = last

\* GET / : home()
Home(c) ==
    /\ pc[c] = "idle"
    /\ Respond(c, "home", "rendered")
    /\ UNCHANGED <<db, uploads, session, deleted>>

\* register() up to the duplicate-username SELECT
RegisterBegin(c, method, username, raw_password) ==
    /\ pc[c] = "idle"
    /\ IF method # "POST" THEN Respond(c, "register", "rendered")
       ELSE IF PasswordError(raw_password) # "ok"
       THEN Respond(c, "register", PasswordError(raw_password))
       ELSE IF UsersNamed(Strip(username)) # {}
       THEN Respond(c, "register", "username_taken")
       ELSE Continue(c, "reg_insert",
                     [op |-> "register", username |-> Strip(username),
                      password |-> raw_password])
    /\ UNCHANGED <<db, uploads, session, deleted>>

\* register(): INSERT INTO users and commit, outside any try.  The write
\* fails when the username is taken (the column is UNIQUE) or when the
\* database refuses it (dbOk is false: it is locked, say); the handler
\* catches neither error.
RegisterInsert(c, salt, dbOk) ==
    /\ pc[c] = "reg_insert"
    /\ IF ~dbOk \/ UsersNamed(req[c].username) # {}
       THEN /\ Respond(c, "register", "error500")
            /\ UNCHANGED <<users, sqlite_sequence>>
       ELSE /\ users' = users \cup
                 {[id |-> sqlite_sequence.users + 1,
                   username |-> req[c].username,
                   password |->
                       generate_password_hash(req[c].password, salt)]}
            /\ sqlite_sequence' =
                 [sqlite_sequence EXCEPT !.users = @ + 1]
            /\ Respond(c, "register", "registered")
    /\ UNCHANGED <<films, reviews, uploads, session, deleted>>

\* login()
\* login() with a message of its own for a username that has no row
Login_RevealsUnknownUser(c, method, username, password) ==
    /\ pc[c] = "idle"
    /\ IF method # "POST"
       THEN /\ Respond(c, "login", "rendered")
            /\ UNCHANGED session
       ELSE IF \E u \in UsersNamed(username) :
                   check_password_hash(u.password, password)
       THEN LET user == CHOOSE u \in UsersNamed(username) : TRUE
            IN  /\ session' = [session EXCEPT ![c] =
                       [user_id |-> user.id, username |-> user.username]]
                /\ Respond(c, "login", "logged_in")
       ELSE /\ Respond(c, "login",
                       IF UsersNamed(username) = {}
                       THEN "unknown_user" ELSE "invalid_credentials")
            /\ UNCHANGED session
    /\ UNCHANGED <<db, uploads, deleted>>

Login(c, method, username, password) ==
    /\ pc[c] = "idle"
    /\ IF method # "POST"
       THEN /\ Respond(c, "login", "rendered")
            /\ UNCHANGED session
       ELSE IF \E u \in UsersNamed(username) :
                   check_password_hash(u.password, password)
       THEN LET user == CHOOSE u \in UsersNamed(username) : TRUE
            IN  /\ session' = [session EXCEPT ![c] =
                       [user_id |-> user.id, username |-> user.username]]
                /\ Respond(c, "login", "logged_in")
       ELSE /\ Respond(c, "login", "invalid_credentials")
            /\ UNCHANGED session
    /\ UNCHANGED <<db, uploads, deleted>>

\* logout(): session.clear()
Logout(c) ==
    /\ pc[c] = "idle"
    /\ session' = [session EXCEPT ![c] = NoSession]
    /\ Respond(c, "logout", "logged_out")
    /\ UNCHANGED <<db, uploads, deleted>>

\* view_review().  review_id is the int of the route, as PyInt gives it: one
\* that does not fit an SQLite INTEGER cannot be bound to the SELECT
\* (OverflowError), and the handler has no try.
ViewReview(c, review_id) ==
    /\ pc[c] = "idle"
    /\ IF ~review_id.int64 THEN Respond(c, "view", "error500")
       ELSE IF ViewRows(review_id.val) = {}
       THEN Respond(c, "view", "not_found")
       ELSE Respond(c, "view", "rendered")
    /\ UNCHANGED <<db, uploads, session, deleted>>

\* the request r passes the rating validation and the check of its file
WillInsert(r) ==
    RatingValid(r.rating) /\ (r.photo = <<>> \/ allowed_file(r.photo))

\* add_review() once film_id is resolved: rating validation and the check
\* of the uploaded file's name, up to the next write
AddReviewValidate(c, r) ==
    IF ~RatingValid(r.rating) THEN Respond(c, "add", "invalid_rating")
    ELSE IF r.photo = <<>>
    THEN Continue(c, "add_save", [r EXCEPT !.rating = PyInt(r.rating).val])
    ELSE IF ~allowed_file(r.photo)
    THEN Respond(c, "add", "invalid_file")
    ELSE Continue(c, "add_upload",
                  [r EXCEPT !.rating = PyInt(r.rating).val])

\* add_review() up to the first write
AddReviewBegin(c, method, form) ==
    /\ pc[c] = "idle"
    /\ LET title == Strip(form.title)
           content == Strip(form.content)
           new_film_title == Strip(form.new_film)
           film_id == PyInt(form.film_id)
           r == [op |-> "add", title |-> title, rating |-> form.rating,
                 content |-> content, new_film |-> new_film_title,
                 film_id |-> 0, photo |-> form.photo, filename |-> Null]
       IN  IF ~LoggedIn(c) THEN Respond(c, "add", "login_required")
           ELSE IF method # "POST" THEN Respond(c, "add", "rendered")
           ELSE IF title = <<>> \/ form.rating = <<>> \/ content = <<>>
           THEN Respond(c, "add", "missing_fields")
           ELSE IF form.film_id = S_new
           THEN IF new_film_title = <<>>
                THEN Respond(c, "add", "missing_film_title")
                ELSE IF FilmsNoCase(films, new_film_title) # {}
                THEN AddReviewValidate(c,
                         [r EXCEPT !.film_id =
                             FirstId(FilmsNoCase(films, new_film_title))])
                ELSE Continue(c, "add_film", r)
           ELSE IF ~film_id.ok
           THEN Respond(c, "add", "invalid_film")
           ELSE IF ~film_id.int64
           THEN Respond(c, "add", "error500")
           ELSE IF FilmsById(film_id.val) = {}
           THEN Respond(c, "add", "film_not_found")
           ELSE AddReviewValidate(c, [r EXCEPT !.film_id = film_id.val])
    /\ UNCHANGED <<db, uploads, session, deleted>>

\* the INSERT INTO films on a table whose title column is not UNIQUE
AddReviewInsertFilm_NoUnique(c, dbOk) ==
    /\ pc[c] = "add_film"
    /\ IF ~dbOk
       THEN /\ Respond(c, "add", "error500")
            /\ UNCHANGED <<films, sqlite_sequence>>
       ELSE /\ films' = films \cup {[id |-> sqlite_sequence.films + 1,
                                     title |-> req[c].new_film]}
            /\ sqlite_sequence' = [sqlite_sequence EXCEPT !.films = @ + 1]
            /\ Continue(c, "add_film_id", req[c])
    /\ UNCHANGED <<users, reviews, uploads, session, deleted>>

\* add_review(): INSERT INTO films and commit, outside any try.  The write
\* fails when a row has this very title (the column is UNIQUE, BINARY
\* collation) or when the database refuses it (dbOk is false); the handler
\* catches neither error.
AddReviewInsertFilm(c, dbOk) ==
    /\ pc[c] = "add_film"
    /\ IF ~dbOk \/ \E f \in films : f.title = req[c].new_film
       THEN /\ Respond(c, "add", "error500")
            /\ UNCHANGED <<films, sqlite_sequence>>
       ELSE /\ films' = films \cup {[id |-> sqlite_sequence.films + 1,
                                     title |-> req[c].new_film]}
            /\ sqlite_sequence' = [sqlite_sequence EXCEPT !.films = @ + 1]
            /\ Continue(c, "add_film_id", req[c])
    /\ UNCHANGED <<users, reviews, uploads, session, deleted>>

\* add_review(): the SELECT of the new film's id after the commit, then the
\* rating validation and the check of the file
AddReviewSelectFilm(c) ==
    /\ pc[c] = "add_film_id"
    /\ AddReviewValidate(c,
           [req[c] EXCEPT !.film_id =
               FirstId(FilmsNoCase(films, req[c].new_film))])
    /\ UNCHANGED <<db, uploads, session, deleted>>

\* add_review(): file.save under the timestamped name, outside any try
AddReviewUpload(c, t, saveOk) ==
    /\ pc[c] = "add_upload"
    /\ IF ~saveOk
       THEN /\ Respond(c, "add", "error500")
            /\ UNCHANGED uploads
       ELSE /\ uploads' = uploads \cup {StoredName(t, req[c].photo)}
            /\ Continue(c, "add_save",
                   [req[c] EXCEPT !.filename = StoredName(t, req[c].photo)])
    /\ UNCHANGED <<db, session, deleted>>

\* an insert whose failure is raised after the row has been committed
AddReviewSave_CommitThenFail(c, t, dbOk) ==
    /\ pc[c] = "add_save"
    /\ reviews' = reviews \cup
         {[id |-> sqlite_sequence.reviews + 1,
           title |-> req[c].title,
           rating |-> req[c].rating,
           content |-> req[c].content,
           date |-> DateOf(t),
           user_id |-> session[c].user_id,
           film_id |-> req[c].film_id,
           photo |-> req[c].filename]}
    /\ sqlite_sequence' = [sqlite_sequence EXCEPT !.reviews = @ + 1]
    /\ Respond(c, "add", IF dbOk THEN "added" ELSE "add_error")
    /\ UNCHANGED <<users, films, uploads, session, deleted>>

\* an insert into a table whose id is not AUTOINCREMENT: the new row gets
\* the largest id in the table plus one
AddReviewSave_RowidReuse(c, t, dbOk) ==
    /\ pc[c] = "add_save"
    /\ IF \/ ~dbOk
          \/ KeyError(session[c], "user_id")
          \/ ~RatingCheck(req[c].rating)
       THEN /\ Respond(c, "add", "add_error")
            /\ UNCHANGED <<reviews, sqlite_sequence>>
       ELSE /\ reviews' = reviews \cup
                 {[id |-> IF reviews = {} THEN 1
                          ELSE (CHOOSE r \in reviews :
                                   \A q \in reviews : q.id <= r.id).id + 1,
                   title |-> req[c].title,
                   rating |-> req[c].rating,
                   content |-> req[c].content,
                   date |-> DateOf(t),
                   user_id |-> session[c].user_id,
                   film_id |-> req[c].film_id,
                   photo |-> req[c].filename]}
            /\ sqlite_sequence' = [sqlite_sequence EXCEPT !.reviews = @ + 1]
            /\ Respond(c, "add", "added")
    /\ UNCHANGED <<users, films, uploads, session, deleted>>

\* an insert whose except branch removes the file stored by the request
AddReviewSave_RemovesFile(c, t, dbOk) ==
    /\ pc[c] = "add_save"
    /\ IF \/ ~dbOk
          \/ KeyError(session[c], "user_id")
          \/ ~RatingCheck(req[c].rating)
       THEN /\ Respond(c, "add", "add_error")
            /\ uploads' = uploads \ {req[c].filename}
            /\ UNCHANGED <<reviews, sqlite_sequence>>
       ELSE /\ reviews' = reviews \cup
                 {[id |-> sqlite_sequence.reviews + 1,
                   title |-> req[c].title,
                   rating |-> req[c].rating,
                   content |-> req[c].content,
                   date |-> DateOf(t),
                   user_id |-> session[c].user_id,
                   film_id |-> req[c].film_id,
                   photo |-> req[c].filename]}
            /\ sqlite_sequence' = [sqlite_sequence EXCEPT !.reviews = @ + 1]
            /\ Respond(c, "add", "added")
            /\ UNCHANGED uploads
    /\ UNCHANGED <<users, films, session, deleted>>

\* add_review(): INSERT INTO reviews, inside try/except Exception
AddReviewSave(c, t, dbOk) ==
    /\ pc[c] = "add_save"
    /\ IF \/ ~dbOk
          \/ KeyError(session[c], "user_id")
          \/ ~RatingCheck(req[c].rating)
          \/ ForeignKeysOn /\ (\/ FilmsById(req[c].film_id) = {}
                               \/ ~\E u \in users :
                                      u.id = session[c].user_id)
       THEN /\ Respond(c, "add", "add_error")
            /\ UNCHANGED <<reviews, sqlite_sequence>>
       ELSE /\ reviews' = reviews \cup
                 {[id |-> sqlite_sequence.reviews + 1,
                   title |-> req[c].title,
                   rating |-> req[c].rating,
                   content |-> req[c].content,
                   date |-> DateOf(t),
                   user_id |-> session[c].user_id,
                   film_id |-> req[c].film_id,
                   photo |-> req[c].filename]}
            /\ sqlite_sequence' = [sqlite_sequence EXCEPT !.reviews = @ + 1]
            /\ Respond(c, "add", "added")
    /\ UNCHANGED <<users, films, uploads, session, deleted>>

\* edit_review().  The POST branch binds none of title, rating, content,
\* film_id, filename ("... validation code ..."): building the parameters
\* of the UPDATE raises NameError inside the try block, no statement is
\* executed, and the except clause reports the error.  The handler only
\* reads the database, so it is one step.  The SELECT of the review and
\* the ownership comparison are outside any try block; review_id is the int
\* of the route, as for view_review().
EditReview(c, review_id, method, form) ==
    /\ pc[c] = "idle"
    /\ IF ~LoggedIn(c) THEN Respond(c, "edit", "login_required")
       ELSE IF ~review_id.int64 THEN Respond(c, "edit", "error500")
       ELSE IF ReviewsById(review_id.val) = {}
       THEN Respond(c, "edit", "not_found")
       ELSE IF KeyError(session[c], "user_id")
       THEN Respond(c, "edit", "error500")
       ELSE IF ~IsOwner(CHOOSE r \in ReviewsById(review_id.val) : TRUE,
                        session[c])
       THEN Respond(c, "edit", "forbidden")
       ELSE IF method = "POST" THEN Respond(c, "edit", "edit_error")
       ELSE Respond(c, "edit", "rendered")
    /\ UNCHANGED <<db, uploads, session, deleted>>

\* delete_review() up to the ownership check; the SELECT of the review is
\* outside any try block, and review_id is the int of the route, as for
\* view_review()
DeleteReviewBegin(c, review_id) ==
    /\ pc[c] = "idle"
    /\ IF ~LoggedIn(c) THEN Respond(c, "delete", "login_required")
       ELSE IF ~review_id.int64 THEN Respond(c, "delete", "error500")
       ELSE IF ReviewsById(review_id.val) = {}
       THEN Respond(c, "delete", "not_found")
       ELSE IF KeyError(session[c], "user_id")
       THEN Respond(c, "delete", "error500")
       ELSE IF ~IsOwner(CHOOSE r \in ReviewsById(review_id.val) : TRUE,
                        session[c])
       THEN Respond(c, "delete", "forbidden")
       ELSE Continue(c, "del_exec",
                     [op |-> "delete", review_id |-> review_id.val])
    /\ UNCHANGED <<db, uploads, session, deleted>>

\* delete_review(): DELETE FROM reviews, inside try/except Exception
DeleteReviewExec(c, dbOk) ==
    /\ pc[c] = "del_exec"
    /\ IF ~dbOk
       THEN /\ Respond(c, "delete", "delete_error")
            /\ UNCHANGED <<reviews, deleted>>
       ELSE /\ reviews' = DeleteFrom(reviews, req[c].review_id)
            /\ deleted' = deleted \cup {req[c].review_id}
            /\ Respond(c, "delete", "deleted")
    /\ UNCHANGED <<users, films, sqlite_sequence, uploads, session>>

----------------------------------------------------------------------------
(* Inputs.                                                                 *)

Methods == {"GET", "POST"}

Times == 0..MaxTime

\* the first seed review, every id a new review can get, and one id that
\* no review ever has
ReviewIdInputs ==
    {1, 2} \cup {Len(SeedReviews) + k : k \in 1..(MaxNewReviews + 1)}

\* the ints of a route: those ids, and 2^63
ReviewIdArgs == {PyIntOf(i) : i \in ReviewIdInputs} \cup {PyInt(S_2_63)}

Form(title, rating, content, film_id, new_film, photo) ==
    [title |-> title, rating |-> rating, content |-> content,
     film_id |-> film_id, new_film |-> new_film, photo |-> photo]

RegisterUsernames == {S_dave, S_dave_padded}

RegisterPasswords == {S_Passw0rd, S_abc}

LoginUsernames == {S_alice, S_dave}

LoginPasswords == {S_password123, S_Passw0rd}

\* forms of the interleaved workflow: a valid one, an unknown film, a
\* rating above and one below the range, a file that is not an image
LeanForms ==
    {Form(S_Ok, <<"3">>, S_Ok, <<"1">>, <<>>, <<>>),
     Form(S_Ok, <<"3">>, S_Ok, <<"9", "9">>, <<>>, <<>>),
     Form(S_Ok, <<"6">>, S_Ok, <<"1">>, <<>>, <<>>),
     Form(S_Ok, <<"0">>, S_Ok, <<"1">>, <<>>, <<>>),
     Form(S_Ok, <<"3">>, S_Ok, <<"1">>, <<>>, S_evil_exe)}

RatingInputs ==
    {<<>>, <<"0">>, <<"3">>, <<"6">>, <<"3", ".", "5">>, <<" ", "5", " ">>,
     <<"3", "\r">>, <<"\\u0663">>, <<"²">>, <<"4", "\\x1c">>}

\* <<film_id, new_film>>
FilmInputs ==
    {<<S_new, S_Dune>>, <<S_new, S_dune>>, <<S_new, S_the_matrix>>,
     <<S_new, S_blank>>, <<<<"1">>, <<>>>>, <<<<"9", "9">>, <<>>>>,
     <<<<"x">>, <<>>>>, <<<<>>, <<>>>>, <<<<"1", "\r">>, <<>>>>,
     <<S_2_63, <<>>>>}

PhotoInputs == {<<>>, S_a_PNG, S_evil_exe, S_png}

\* forms without a file: every rating; a blank title or content and every
\* film choice, each with a good and a bad rating
RatingForms ==
    {Form(S_Ok, r, S_Ok, <<"1">>, <<>>, <<>>) : r \in RatingInputs}
    \cup {Form(t[1], r, t[2], <<"1">>, <<>>, <<>>) :
        r \in {<<"3">>, <<"6">>},
        t \in {<<S_blank, S_Ok>>, <<S_Ok, S_blank>>, <<S_Ok, S_crlf>>}}
    \cup {Form(S_Ok, r, S_Ok, f[1], f[2], <<>>) :
        r \in {<<"3">>, <<"6">>}, f \in FilmInputs}

\* forms of the creation pipeline: those, and every file with a good and a
\* bad rating; a new film with a file that is not an image
RichForms ==
    RatingForms
    \cup {Form(S_Ok, r, S_Ok, <<"1">>, <<>>, p) :
        r \in {<<"3">>, <<"6">>}, p \in PhotoInputs}
    \cup {Form(S_Ok, r, S_Ok, S_new, S_Dune, S_evil_exe) :
        r \in {<<"3">>, <<"6">>}}

\* forms of an edit request: a valid one, and one with a file that is not
\* an image
EditForms ==
    {Form(S_Ok, <<"3">>, S_Ok, <<"1">>, <<>>, <<>>),
     Form(S_Ok, <<"3">>, S_Ok, <<"1">>, <<>>, S_evil_exe)}

----------------------------------------------------------------------------
(* Specifications.                                                         *)

\* a create request r in flight at this position goes on to INSERT INTO
\* reviews unless a step fails
Pending(at, r) ==
    \/ at \in {"add_upload", "add_save"}
    \/ at \in {"add_film", "add_film_id"} /\ WillInsert(r)

\* the sessions with such a request
AddPending == {c \in Sessions : Pending(pc[c], req[c])}

\* The bound of a workflow is on the requests that its sessions send: a
\* create request that goes on to INSERT INTO reviews is sent by session c
\* in this step only while the reviews created and the create requests in
\* flight are fewer than max.  The handlers refuse nothing for it, and a
\* request that was sent is never cut off.
SendsWithin(c, max) ==
    (Pending(pc'[c], req'[c]) /\ ~Pending(pc[c], req[c]))
        => sqlite_sequence.reviews + Cardinality(AddPending)
               < Len(SeedReviews) + max

\* Authentication and the ownership workflow, with the requests of two
\* sessions interleaved: every handler, and every step of add_review except
\* the film insert and the upload.
Next ==
    \E c \in Sessions :
        \/ Home(c)
        \/ \E u \in RegisterUsernames, p \in RegisterPasswords :
              RegisterBegin(c, "POST", u, p)
        \/ \E s \in Salts, ok \in BOOLEAN : RegisterInsert(c, s, ok)
        \/ \E u \in LoginUsernames, p \in LoginPasswords :
              Login(c, "POST", u, p)
        \/ Logout(c)
        \/ \E i \in ReviewIdArgs : ViewReview(c, i)
        \/ \E f \in LeanForms :
              AddReviewBegin(c, "POST", f) /\ SendsWithin(c, MaxNewReviews)
        \/ \E t \in Times, ok \in BOOLEAN : AddReviewSave(c, t, ok)
        \/ \E i \in ReviewIdInputs, m \in Methods, f \in EditForms :
              EditReview(c, PyIntOf(i), m, f)
        \/ \E i \in ReviewIdArgs : DeleteReviewBegin(c, i)
        \/ \E ok \in BOOLEAN : DeleteReviewExec(c, ok)

Spec == Init /\ [][Next]_vars

\* The creation pipeline in one session, its requests one after the other:
\* film resolution, validation, upload and insert on the full input menu.
NextCreate ==
    \/ \E p \in LoginPasswords : Login("s1", "POST", S_alice, p)
    \/ Logout("s1")
    \/ Home("s1")
    \/ \E i \in ReviewIdArgs : ViewReview("s1", i)
    \/ \E f \in RichForms :
          AddReviewBegin("s1", "POST", f) /\ SendsWithin("s1", MaxNewReviews)
    \/ \E f \in EditForms : AddReviewBegin("s1", "GET", f)
    \/ \E ok \in BOOLEAN : AddReviewInsertFilm("s1", ok)
    \/ AddReviewSelectFilm("s1")
    \/ \E t \in Times, ok \in BOOLEAN : AddReviewUpload("s1", t, ok)
    \/ \E t \in Times, ok \in BOOLEAN : AddReviewSave("s1", t, ok)
    \/ \E i \in ReviewIdArgs, m \in Methods, f \in EditForms :
          EditReview("s1", i, m, f)

SpecCreate == Init /\ [][NextCreate]_vars

\* forms whose film id is a numeral at the limit of int(), and beyond it
LongNumeralForms ==
    {Form(S_Ok, <<"3">>, S_Ok, n, <<>>, <<>>) :
        n \in {S_nines_4300, S_nines_4301}}

\* The creation pipeline without uploads, in one session: the checks of
\* add_review on every rating and every film choice.
NextRating ==
    \/ Login("s1", "POST", S_alice, S_password123)
    \/ \E f \in RatingForms \cup LongNumeralForms :
          AddReviewBegin("s1", "POST", f) /\ SendsWithin("s1", MaxNewReviews)
    \/ \E ok \in BOOLEAN : AddReviewInsertFilm("s1", ok)
    \/ AddReviewSelectFilm("s1")
    \/ \E t \in Times, ok \in BOOLEAN : AddReviewSave("s1", t, ok)
    \/ \E i \in ReviewIdArgs : ViewReview("s1", i)

SpecRating == Init /\ [][NextRating]_vars

\* forms of the file workflow: valid requests with an image, one of them
\* with a letter outside ASCII in its name, and one without a file
FileForms ==
    {Form(S_Ok, <<"3">>, S_Ok, <<"1">>, <<>>, S_a_PNG),
     Form(S_Ok, <<"3">>, S_Ok, <<"1">>, <<>>, S_cafe_png),
     Form(S_Ok, <<"3">>, S_Ok, <<"1">>, <<>>, <<>>)}

\* Uploads and deletes in one session: alice creates reviews with and
\* without an image, and deletes reviews.
NextFiles ==
    \/ Login("s1", "POST", S_alice, S_password123)
    \/ \E f \in FileForms :
          AddReviewBegin("s1", "POST", f) /\ SendsWithin("s1", MaxNewReviews)
    \/ \E t \in Times, ok \in BOOLEAN : AddReviewUpload("s1", t, ok)
    \/ \E t \in Times, ok \in BOOLEAN : AddReviewSave("s1", t, ok)
    \/ \E i \in ReviewIdArgs : ViewReview("s1", i)
    \/ \E i \in ReviewIdArgs : DeleteReviewBegin("s1", i)
    \/ \E ok \in BOOLEAN : DeleteReviewExec("s1", ok)

SpecFiles == Init /\ [][NextFiles]_vars

\* Uploads of one file name by two sessions whose requests interleave, with
\* room for one review more than in the other workflows: a file can be
\* stored under the name that the photo of an earlier review has.
NextUploads ==
    \E c \in Sessions :
        \/ \E u \in {S_alice, S_bob} : Login(c, "POST", u, S_password123)
        \/ /\ AddReviewBegin(c, "POST",
                             Form(S_Ok, <<"3">>, S_Ok, <<"1">>, <<>>, S_a_PNG))
           /\ SendsWithin(c, MaxNewReviews + 1)
        \/ \E t \in Times, ok \in BOOLEAN : AddReviewUpload(c, t, ok)
        \/ \E t \in Times, ok \in BOOLEAN : AddReviewSave(c, t, ok)

SpecUploads == Init /\ [][NextUploads]_vars

\* usernames of the account workflow: each is registered under one
\* spelling only, one of them with a leading space
AuthUsernames == {S_dave, S_erin_padded}

\* passwords of the registrations: the two of the other workflows, and one
\* whose only uppercase letter is outside ASCII
AuthPasswords == RegisterPasswords \cup {S_passwErd1}

\* Accounts: registrations, logins and logouts of two sessions, interleaved.
NextAuth ==
    \E c \in Sessions :
        \/ \E u \in AuthUsernames, p \in AuthPasswords :
              RegisterBegin(c, "POST", u, p)
        \/ \E s \in Salts, ok \in BOOLEAN : RegisterInsert(c, s, ok)
        \/ \E u \in AuthUsernames \cup {S_alice}, p \in LoginPasswords :
              Login(c, "POST", u, p)
        \/ Logout(c)

SpecAuth == Init /\ [][NextAuth]_vars

\* create forms that add a new film, under two spellings of one title, with
\* a good and a bad rating
RaceForms ==
    {Form(S_Ok, r, S_Ok, S_new, t, <<>>) :
        r \in {<<"3">>, <<"6">>}, t \in {S_Dune, S_dune}}

\* Creation of new films by two sessions whose requests interleave between
\* the lookup of the title and the insert.
NextRace ==
    \E c \in Sessions :
        \/ \E u \in {S_alice, S_bob} : Login(c, "POST", u, S_password123)
        \/ \E f \in RaceForms :
              AddReviewBegin(c, "POST", f) /\ SendsWithin(c, MaxNewReviews)
        \/ \E ok \in BOOLEAN : AddReviewInsertFilm(c, ok)
        \/ AddReviewSelectFilm(c)
        \/ \E t \in Times, ok \in BOOLEAN : AddReviewSave(c, t, ok)
        \/ \E i \in ReviewIdArgs : ViewReview(c, i)

SpecRace == Init /\ [][NextRace]_vars

\* create forms that add a new film: two spellings of one title, two titles
\* that differ after a NUL, each with a good and a bad rating
TitleForms ==
    {Form(S_Ok, r, S_Ok, S_new, t, <<>>) :
        r \in {<<"3">>, <<"6">>},
        t \in {S_Dune, S_dune, S_a_nul_b, S_a_nul_c}}

\* Film resolution in one session, its requests one after the other.
NextTitles ==
    \/ \E u \in {S_alice, S_bob} : Login("s1", "POST", u, S_password123)
    \/ \E f \in TitleForms :
          AddReviewBegin("s1", "POST", f) /\ SendsWithin("s1", MaxNewReviews)
    \/ \E ok \in BOOLEAN : AddReviewInsertFilm("s1", ok)
    \/ AddReviewSelectFilm("s1")
    \/ \E t \in Times, ok \in BOOLEAN : AddReviewSave("s1", t, ok)
    \/ \E i \in ReviewIdArgs : ViewReview("s1", i)

SpecTitles == Init /\ [][NextTitles]_vars

\* the last seed review and every id a new review can get
OwnedIdInputs == Len(SeedReviews)..(Len(SeedReviews) + MaxNewReviews)

\* Ownership across requests: two sessions, of the owner of the last seed
\* review and of another user, create, edit and delete reviews, with the
\* ownership check and the write of a request apart.
NextOwner ==
    \E c \in Sessions :
        \/ \E u \in {S_alice, S_charlie} : Login(c, "POST", u, S_password123)
        \/ /\ AddReviewBegin(c, "POST",
                             Form(S_Ok, <<"3">>, S_Ok, <<"1">>, <<>>, <<>>))
           /\ SendsWithin(c, MaxNewReviews)
        \/ \E t \in Times, ok \in BOOLEAN : AddReviewSave(c, t, ok)
        \/ \E i \in OwnedIdInputs :
              EditReview(c, PyIntOf(i), "POST",
                         Form(S_Ok, <<"3">>, S_Ok, <<"1">>, <<>>, <<>>))
        \/ \E i \in OwnedIdInputs : DeleteReviewBegin(c, PyIntOf(i))
        \/ \E ok \in BOOLEAN : DeleteReviewExec(c, ok)

SpecOwner == Init /\ [][NextOwner]_vars

----------------------------------------------------------------------------
(* Properties.                                                             *)

\* session c carries no user id
Anonymous(c) == "user_id" \notin DOMAIN session[c]

\* session c carries a user id, and it is not that of the owner of review x
NotOwner(c, x) ==
    /\ ~Anonymous(c)
    /\ \E r \in reviews : r.id = x /\ r.user_id # session[c].user_id

\* session c is idle, and an edit or delete request may be taken up in this
\* step
EditOrDeleteStep(c) ==
    /\ pc[c] = "idle"
    /\ pc'[c] = "del_exec" \/ last'.op \in {"edit", "delete"}

\* some edit request of session c for review x is handled in this step
EditStep(c, x) ==
    /\ pc[c] = "idle" /\ pc'[c] = "idle" /\ last'.op = "edit"
    /\ \E m \in Methods, f \in EditForms : EditReview(c, PyIntOf(x), m, f)

\* some delete request of session c for review x is taken up in this step
DeleteStep(c, x) ==
    /\ pc[c] = "idle"
    /\ pc'[c] = "del_exec" \/ (pc'[c] = "idle" /\ last'.op = "delete")
    /\ DeleteReviewBegin(c, PyIntOf(x))

\* some create request of session c is taken up in this step
AddStep(c) ==
    /\ pc[c] = "idle" /\ (pc'[c] # "idle" \/ last'.op = "add")
    /\ \E m \in Methods, f \in LeanForms \cup RichForms :
           AddReviewBegin(c, m, f)

\* C1: an edit or delete request for review x from a session logged in as a
\* user other than the owner of x ends at once with the forbidden outcome
\* and leaves every review row as it was, whatever the other session has in
\* flight.
C1_NotOwnerForbidden ==
    [][\A c \in Sessions :
          EditOrDeleteStep(c)
          => \A x \in ReviewIdInputs :
                NotOwner(c, x) /\ (EditStep(c, x) \/ DeleteStep(c, x))
                => /\ last'.outcome = "forbidden"
                   /\ pc'[c] = "idle"
                   /\ reviews' = reviews]_vars

\* a delete of another user's review was refused while the other session
\* has a request in flight
C1_Witness ==
    /\ last = [op |-> "delete", outcome |-> "forbidden"]
    /\ \E c \in Sessions : NotOwner(c, 1)
    /\ \E c \in Sessions : pc[c] # "idle"

\* C2: a create, edit or delete request from a session without a user id is
\* redirected to the login page, and changes no row and stores no file.
C2_AnonymousRedirected ==
    [][\A c \in Sessions :
          /\ Anonymous(c)
          /\ \/ AddStep(c)
             \/ \E x \in ReviewIdInputs :
                    EditStep(c, x) \/ DeleteStep(c, x)
          => /\ last'.outcome = "login_required"
             /\ pc'[c] = "idle"
             /\ UNCHANGED <<db, uploads>>]_vars

\* an anonymous create was redirected, after a review had been deleted
C2_Witness ==
    /\ last = [op |-> "add", outcome |-> "login_required"]
    /\ \A c \in Sessions : pc[c] = "idle" /\ Anonymous(c)
    /\ deleted # {}

\* the stored hash is a hash of this password, under some salt
HashOf(pwhash, password) ==
    \E s \in Salts \cup {"seed"} :
        pwhash = generate_password_hash(password, s)

\* session c is handed the identity of a stored user in a login request
\* under that user's name, and the password of every login request that
\* this step can be the handling of verifies against the user's hash
LoggedInByLogin(c) ==
    /\ last' = [op |-> "login", outcome |-> "logged_in"]
    /\ \E u \in users :
          /\ session'[c] = [user_id |-> u.id, username |-> u.username]
          /\ \E p \in LoginPasswords : Login(c, "POST", u.username, p)
          /\ \A p \in LoginPasswords :
                Login(c, "POST", u.username, p) => HashOf(u.password, p)

\* C3: the session of c gets a user id, or another one, only in a login
\* request whose username is that of a stored user and whose password
\* verifies against that user's hash, and it then carries that user's id;
\* the only other change of a session is that of a logout request, which
\* empties it; registration, a failed login and every other request leave
\* the session as it is.
C3_OnlyLoginOrLogoutChangesSession ==
    [][\A c \in Sessions :
          session'[c] # session[c]
          => \/ LoggedInByLogin(c)
             \/ /\ Logout(c)
                /\ session'[c] = NoSession]_vars

\* the user registered by a request is logged in, in a session that was
\* refused before
C3_Witness ==
    /\ last = [op |-> "login", outcome |-> "logged_in"]
    /\ \E c \in Sessions :
          /\ ~Anonymous(c)
          /\ session[c].user_id > Len(SeedUsernames)
    /\ \E c \in Sessions : Anonymous(c)

\* the text is a decimal numeral of an integer in 1..5
Rating1to5(rating) == PyInt(rating).ok /\ PyInt(rating).val \in 1..5

\* the checks that add_review makes before it looks at the rating pass:
\* title, rating and content are present, and the film choice is a new
\* title or a numeral of the id of a film row
BeforeRatingOk(form) ==
    /\ Strip(form.title) # <<>> /\ form.rating # <<>>
    /\ Strip(form.content) # <<>>
    /\ \/ form.film_id = S_new /\ Strip(form.new_film) # <<>>
       \/ /\ form.film_id # S_new
          /\ PyInt(form.film_id).ok
          /\ \E f \in films : f.id = PyInt(form.film_id).val

\* the forms of the model whose rating is no integer in 1..5
BadRatingForms == {f \in RatingForms : ~Rating1to5(f.rating)}

\* session c, logged in, has a create request taken up in this step
AddPostStep(c) ==
    /\ pc[c] = "idle" /\ ~Anonymous(c)
    /\ pc'[c] # "idle" \/ last'.op = "add"

\* the create request that session c has past its first step carries a
\* rating that is no integer in 1..5, and the id of the film that it has
\* inserted is read in this step
BadRatingInFlight(c) ==
    /\ pc[c] = "add_film_id"
    /\ ~Rating1to5(req[c].rating)
    /\ AddReviewSelectFilm(c)

\* C4 as stated: a create request of a logged-in session with a rating that
\* is no integer in 1..5 ends with the rating-validation error and adds no
\* review row.
C4_BadRatingInvalidRating ==
    [][\A c \in Sessions :
          /\ AddPostStep(c)
                => \A f \in BadRatingForms :
                      AddReviewBegin(c, "POST", f)
                      => /\ reviews' = reviews
                         /\ \/ pc'[c] = "add_film"
                            \/ /\ pc'[c] = "idle"
                               /\ last'.outcome = "invalid_rating"
          /\ BadRatingInFlight(c)
                => /\ reviews' = reviews
                   /\ pc'[c] = "idle" /\ last'.outcome = "invalid_rating"]_vars

EarlierErrors ==
    {"missing_fields", "missing_film_title", "invalid_film", "film_not_found",
     "error500"}

\* C4, amended: such a request adds no review row; it ends with the
\* rating-validation error when the rating is not empty, title and content
\* are not blank and the film choice resolves, and with the error of the
\* earlier check that fails otherwise; when it inserts a new film and the
\* insert fails, it ends there with an error that is not handled.
C4_BadRatingRejected ==
    [][\A c \in Sessions :
          /\ AddPostStep(c)
                => \A f \in BadRatingForms :
                      AddReviewBegin(c, "POST", f)
                      => /\ reviews' = reviews
                         /\ IF BeforeRatingOk(f)
                            THEN \/ pc'[c] = "add_film"
                                 \/ /\ pc'[c] = "idle"
                                    /\ last'.outcome = "invalid_rating"
                            ELSE /\ pc'[c] = "idle"
                                 /\ last'.outcome \in EarlierErrors
          /\ pc[c] = "add_film" /\ ~Rating1to5(req[c].rating)
                => /\ reviews' = reviews
                   /\ \/ pc'[c] \in {"add_film", "add_film_id"}
                      \/ pc'[c] = "idle" /\ last'.outcome = "error500"
          /\ BadRatingInFlight(c)
                => /\ reviews' = reviews
                   /\ pc'[c] = "idle" /\ last'.outcome = "invalid_rating"]_vars

\* a rating was refused after the new film of the request had been inserted
C4_Witness ==
    /\ last = [op |-> "add", outcome |-> "invalid_rating"]
    /\ Cardinality(films) > Len(SeedFilmTitles)
    /\ sqlite_sequence.reviews = Len(SeedReviews)

\* equality of titles up to the case of ASCII letters
SameTitleNoCase(a, b) == NoCase(a) = NoCase(b)

\* the forms of the model that name a new film by a title that is not blank
NewFilmForms ==
    {f \in LeanForms \cup RichForms \cup TitleForms :
        f.film_id = S_new /\ Strip(f.new_film) # <<>>}

\* (The formulas below state "this step is the handling of form f only if
\* ..." as a disjunction whose first disjunct is the consequence.)

\* C5 as stated: when a create request types a new film title t, and some
\* film row's title equals t up to case, the request goes on with that
\* row's id and the films table stays as it is; otherwise exactly one row
\* titled t is inserted (the database accepting the write) and the request
\* goes on with the id of that row; the review row that is saved carries
\* the film id the request went on with; and with the requests one after
\* the other, no two film rows ever have titles that are equal up to case.
C5_NewFilmResolved ==
    /\ [](\A f1, f2 \in films :
             SameTitleNoCase(f1.title, f2.title) => f1 = f2)
    /\ [][\A c \in Sessions :
             /\ AddPostStep(c)
                   => \A f \in NewFilmForms :
                         \/ /\ films' = films
                            /\ pc'[c] # "idle"
                                  => IF \E g \in films :
                                          SameTitleNoCase(g.title,
                                                          Strip(f.new_film))
                                     THEN /\ pc'[c] # "add_film"
                                          /\ \E g \in films :
                                                /\ g.id = req'[c].film_id
                                                /\ SameTitleNoCase(g.title,
                                                       Strip(f.new_film))
                                     ELSE /\ pc'[c] = "add_film"
                                          /\ req'[c].new_film
                                                = Strip(f.new_film)
                         \/ ~AddReviewBegin(c, "POST", f)
             /\ pc[c] = "add_film" /\ AddReviewInsertFilm(c, TRUE)
                   => \E g \in films' :
                         /\ g \notin films
                         /\ films' = films \cup {g}
                         /\ g.title = req[c].new_film
                         /\ pc'[c] = "add_film_id"
             /\ pc[c] = "add_film_id" /\ AddReviewSelectFilm(c)
                   => /\ films' = films
                      /\ pc'[c] # "idle"
                            => \E g \in films :
                                  /\ g.id = req'[c].film_id
                                  /\ g.title = req[c].new_film
             /\ pc[c] = "add_save" /\ reviews' # reviews
                   => \E r \in reviews' :
                         /\ reviews' = reviews \cup {r}
                         /\ r.film_id = req[c].film_id]_vars

\* a request that typed "dune" goes on with the id of the film row "Dune"
\* that an earlier request inserted
C5_Witness ==
    /\ \E c \in Sessions :
          /\ pc[c] = "add_save"
          /\ req[c].new_film = S_dune
          /\ req[c].film_id = Len(SeedFilmTitles) + 1
    /\ \E g \in films : g.id = Len(SeedFilmTitles) + 1 /\ g.title = S_Dune
    /\ Cardinality(films) = Len(SeedFilmTitles) + 1

\* session c carries the user id of the owner of review x
Owner(c, x) ==
    /\ ~Anonymous(c)
    /\ \E r \in reviews : r.id = x /\ r.user_id = session[c].user_id

\* C6 as stated: a valid edit request of the owner of review x, without a
\* new file, stores the submitted title, rating, content and film in the
\* row of x, keeps its photo, and leaves the films table as it is.
C6_OwnerEditStored ==
    [][\A c \in Sessions, x \in ReviewIdInputs :
          /\ pc[c] = "idle" /\ last'.op = "edit" /\ Owner(c, x)
          => \A f \in EditForms :
                f.photo = <<>> /\ EditReview(c, PyIntOf(x), "POST", f)
                => /\ films' = films
                   /\ \E r \in reviews', old \in reviews :
                         /\ r.id = x /\ old.id = x
                         /\ r.title = Strip(f.title)
                         /\ r.rating = PyInt(f.rating).val
                         /\ r.content = Strip(f.content)
                         /\ r.film_id = PyInt(f.film_id).val
                         /\ r.photo = old.photo]_vars

\* C7: once a delete request for review x has succeeded, no row of x is left
\* for a fetch by id or for the listing, every later view request for x is
\* answered not found, and the delete removed the row of x and no other.
C7_DeletedStaysGone ==
    /\ [](\A x \in deleted :
             /\ ReviewsById(x) = {}
             /\ ViewRows(x) = {}
             /\ x \notin HomeListing)
    /\ [][\A c \in Sessions :
             /\ pc[c] = "idle" /\ last'.op = "view"
                   => \A x \in deleted :
                         ViewReview(c, PyIntOf(x))
                            => last'.outcome = "not_found"
             /\ pc[c] = "del_exec" /\ DeleteReviewExec(c, TRUE)
                   => /\ reviews' = {r \in reviews : r.id # req[c].review_id}
                      /\ req[c].review_id \in deleted'
                      /\ last'.outcome = "deleted"]_vars

\* review 1 was deleted by its owner, and a later view request was answered
\* not found, with the other seed reviews still listed
C7_Witness ==
    /\ deleted = {1}
    /\ last = [op |-> "view", outcome |-> "not_found"]
    /\ HomeListing = 2..Len(SeedReviews)

\* the name ends in a dot and one of the four image extensions, up to case
HasImageExtension(name) ==
    \E e \in {<<"p", "n", "g">>, <<"j", "p", "g">>, <<"j", "p", "e", "g">>,
              <<"g", "i", "f">>} :
        /\ Len(name) > Len(e)
        /\ Lower(SubSeq(name, Len(name) - Len(e), Len(name))) = <<".">> \o e

\* the forms of the model with a file that has no image extension
BadFileForms ==
    {f \in LeanForms \cup RichForms :
        f.photo # <<>> /\ ~HasImageExtension(f.photo)}

BadFileEditForms ==
    {f \in EditForms : f.photo # <<>> /\ ~HasImageExtension(f.photo)}

\* C8: a create or edit request with a file whose extension is none of png,
\* jpg, jpeg, gif stores no file and adds or changes no review row: it never
\* gets to the upload or the insert, and every stored file and every photo
\* of a review row has one of these extensions.
C8_BadFileNothingStored ==
    /\ [](/\ \A u \in uploads : HasImageExtension(u)
          /\ \A r \in reviews : r.photo # Null => HasImageExtension(r.photo)
          /\ \A c \in Sessions :
                pc[c] \in {"add_upload", "add_save"}
                => req[c].photo = <<>> \/ HasImageExtension(req[c].photo))
    /\ [][\A c \in Sessions :
             /\ AddPostStep(c)
                   => \A f \in BadFileForms :
                         \/ /\ UNCHANGED <<uploads, reviews>>
                            /\ pc'[c] \in {"idle", "add_film"}
                         \/ ~AddReviewBegin(c, "POST", f)
             /\ pc[c] = "add_film" => UNCHANGED <<uploads, reviews>>
             /\ (/\ pc[c] = "add_film_id"
                 /\ req[c].photo # <<>>
                 /\ ~HasImageExtension(req[c].photo)
                 /\ AddReviewSelectFilm(c))
                   => /\ UNCHANGED <<uploads, reviews>>
                      /\ pc'[c] = "idle"
             /\ pc[c] = "idle" /\ last'.op = "edit"
                   => \A x \in ReviewIdInputs, f \in BadFileEditForms :
                         \/ /\ UNCHANGED <<uploads, reviews>>
                            /\ pc'[c] = "idle"
                         \/ ~EditReview(c, PyIntOf(x), "POST", f)]_vars

\* a file that is no image was refused after the new film of the request
\* had been inserted; nothing was stored
C8_Witness ==
    /\ last = [op |-> "add", outcome |-> "invalid_file"]
    /\ Cardinality(films) > Len(SeedFilmTitles)
    /\ uploads = {} /\ sqlite_sequence.reviews = Len(SeedReviews)

\* C9: every review row has an integer rating from 1 to 5.
C9_RatingInRange == \A r \in reviews : r.rating \in 1..5

\* a review was added, and a later create request with a rating out of
\* range was refused
C9_Witness ==
    /\ last = [op |-> "add", outcome |-> "invalid_rating"]
    /\ \E r \in reviews : r.id > Len(SeedReviews)

\* C10: the user id of every review row is the id of a user row, and its
\* film id is the id of a film row.
C10_ReferencesExist ==
    \A r \in reviews :
        /\ \E u \in users : u.id = r.user_id
        /\ \E f \in films : f.id = r.film_id

\* a review of a user who registered was added, and a create request naming
\* a film id that no film row has was refused
C10_Witness ==
    /\ last = [op |-> "add", outcome |-> "film_not_found"]
    /\ \E r \in reviews : r.user_id > Len(SeedUsernames)

\* the positions of a create request between its accesses
AddPcs == {"add_film", "add_film_id", "add_upload", "add_save"}

\* session c has a create request that moves on or ends in this step, or
\* some create request is answered at once
AddMove(c) ==
    \/ pc'[c] # pc[c] /\ (pc[c] \in AddPcs \/ pc'[c] \in AddPcs)
    \/ pc[c] = "idle" /\ pc'[c] = "idle" /\ last'.op = "add"

\* the insert of some create request ends the request with success
SuccessfulInsert ==
    /\ last'.outcome = "added"
    /\ \E c \in Sessions : pc[c] = "add_save" /\ pc'[c] = "idle"

\* C11: no step of a create request other than the insert that ends it
\* with success adds, changes or removes a review row or a user row, and
\* the only change such a step makes to the films table is the insert of
\* the one row for the new title that the request typed.
C11_FailedCreateAddsNothing ==
    [][(\E c \in Sessions : AddMove(c)) /\ ~SuccessfulInsert
          => /\ reviews' = reviews
             /\ users' = users
             /\ \/ films' = films
                \/ \E c \in Sessions :
                      /\ pc[c] = "add_film" /\ pc'[c] # pc[c]
                      /\ \E g \in films' :
                            /\ g \notin films
                            /\ films' = films \cup {g}
                            /\ g.title = req[c].new_film]_vars

\* the insert of a create request failed after the request had inserted
\* its new film: the film row is there, and no review row was added
C11_Witness ==
    /\ last = [op |-> "add", outcome |-> "add_error"]
    /\ Cardinality(films) = Len(SeedFilmTitles) + 1
    /\ sqlite_sequence.reviews = Len(SeedReviews)
    /\ Cardinality(reviews) = Len(SeedReviews)

\* C12 as stated: no request ends with an error that its handler does not
\* catch; every request ends in a redirect or a rendered page.
C12_NoUncaughtError == last.outcome # "error500"

\* C13 as stated: when a delete request removes the row of a review that
\* has a photo, the stored file of that photo is removed with it.
C13_DeleteRemovesFile ==
    [][\A c \in Sessions :
          pc[c] = "del_exec" /\ DeleteReviewExec(c, TRUE)
          => \A r \in ReviewsById(req[c].review_id) :
                r.photo # Null => r.photo \notin uploads']_vars

\* C14 as stated: a successful upload is stored under a name that no file
\* in the uploads directory has, and a review row that is added with a
\* photo names a file that no other review row names.
C14_StoredNamesDiffer ==
    [][\A c \in Sessions :
          /\ pc[c] = "add_upload" /\ pc'[c] = "add_save"
                => \A t \in Times :
                      AddReviewUpload(c, t, TRUE)
                      => StoredName(t, req[c].photo) \notin uploads
          /\ pc[c] = "add_save" /\ reviews' # reviews
                => \/ req[c].filename = Null
                   \/ \A r \in reviews : r.photo # req[c].filename]_vars

\* some user row has this username
Taken(username) == \E u \in users : u.username = username

\* C15: no two user rows have the same username, also with registrations
\* interleaved; no step changes or removes a user row; a register request
\* for a username that a row has is answered at once and leaves the users
\* table as it is; and so does the insert of a register request whose
\* username another request has inserted since the lookup.
C15_UsernamesUnique ==
    /\ [](\A u1, u2 \in users : u1.username = u2.username => u1 = u2)
    /\ [][/\ users' = users \/ users \subseteq users'
          /\ \A c \in Sessions :
                /\ pc[c] = "idle" /\ (pc'[c] = "reg_insert" \/ last'.op = "register")
                      => \A u \in RegisterUsernames, p \in RegisterPasswords :
                            \/ ~Taken(Strip(u))
                            \/ /\ users' = users
                               /\ pc'[c] = "idle"
                               /\ last'.outcome \in
                                     {"username_taken", "password_too_short",
                                      "password_no_uppercase",
                                      "password_no_digit"}
                            \/ ~RegisterBegin(c, "POST", u, p)
                /\ (/\ pc[c] = "reg_insert" /\ pc'[c] = "idle"
                    /\ Taken(req[c].username))
                      => /\ users' = users
                         /\ last'.outcome = "error500"]_vars

\* of two interleaved registrations of one username, one was stored and the
\* other ended at the insert
C15_Witness ==
    /\ last = [op |-> "register", outcome |-> "error500"]
    /\ Cardinality(users) = Len(SeedUsernames) + 1
    /\ \A c \in Sessions : pc[c] = "idle"

\* the password policy: at least 6 characters, an uppercase letter, a digit
MeetsPolicy(p) ==
    /\ Len(p) >= 6
    /\ \E i \in 1..Len(p) : IsUpperChar(p[i])
    /\ \E i \in 1..Len(p) : IsDigitChar(p[i])

\* the user rows that a registration with username u and password p has
\* created (each username of the account workflow is registered under one
\* spelling only)
RegisteredAs(u, p) ==
    {row \in users : /\ row.id > Len(SeedUsernames)
                     /\ row.username = Strip(u)
                     /\ HashOf(row.password, p)}

\* C16 as stated: after a successful registration with username u and a
\* password p that meets the policy, a login request with the same u and p
\* leaves the session logged in as the user that the registration created.
C16_RegisterLoginRoundTrip ==
    [][\A c \in Sessions :
          pc[c] = "idle" /\ last'.op = "login"
          => \A u \in AuthUsernames, p \in RegisterPasswords :
                \A row \in RegisteredAs(u, p) :
                   MeetsPolicy(p) /\ Login(c, "POST", u, p)
                   => /\ last'.outcome = "logged_in"
                      /\ session'[c] = [user_id |-> row.id,
                                        username |-> row.username]]_vars

\* the login attempts of the account workflow
LoginAttempts == (AuthUsernames \cup {S_alice}) \X LoginPasswords

\* no user row carries the submitted username
UnknownUsername(a) == \A row \in users : row.username # a[1]

\* a user row carries the submitted username and the submitted password
\* does not verify against its hash
WrongPassword(a) ==
    \E row \in users : row.username = a[1] /\ ~HashOf(row.password, a[2])

\* C17: a login request with an unknown username and a login request with
\* an existing username and a wrong password have the same outcome: the
\* generic invalid-credentials message and the redirect to the login page,
\* with the session and the database unchanged; every step that handles one
\* of them is also the handling of each of the others.
C17_LoginDoesNotRevealUsernames ==
    [][\A c \in Sessions :
          pc[c] = "idle" /\ last'.op = "login"
          => \A a \in LoginAttempts :
                (UnknownUsername(a) \/ WrongPassword(a))
                /\ Login(c, "POST", a[1], a[2])
                => /\ last' = [op |-> "login",
                               outcome |-> "invalid_credentials"]
                   /\ session' = session /\ db' = db /\ pc' = pc
                   /\ \A b \in LoginAttempts :
                         UnknownUsername(b) \/ WrongPassword(b)
                         => Login(c, "POST", b[1], b[2])]_vars

C17_Witness ==
    /\ last = [op |-> "login", outcome |-> "invalid_credentials"]
    /\ \E a, b \in LoginAttempts : UnknownUsername(a) /\ WrongPassword(b)
    /\ \E c \in Sessions : session[c] # NoSession
    /\ Cardinality(users) > Len(SeedUsernames)

\* session c takes the insert step of a create request that passed the
\* lookup of its new film title
InsertFilmStep(c) == pc[c] = "add_film" /\ pc'[c] # "add_film"

\* a film row carries exactly the title that the request of c submitted
ExactTitlePresent(c) == \E f \in films : f.title = req[c].new_film

\* C18 as stated: every create request that passed the lookup of its new
\* film title inserts a film row with that title (the database accepting
\* the write), also when another request with the same title has inserted
\* its row in between.
C18_BothInsert ==
    [][\A c \in Sessions :
          InsertFilmStep(c) /\ AddReviewInsertFilm(c, TRUE)
          => \E g \in films' : g \notin films /\ g.title = req[c].new_film]_vars

\* C18: two create requests with a new film title can both pass the lookup.
\* When the titles are identical, the first insert adds the row and the
\* second one fails on the UNIQUE title with an error that is not handled,
\* adding nothing: no two film rows carry the identical title. When the
\* titles differ in letter case only, both inserts add a row, unless the
\* database refuses the write, which ends the request the same way.
C18_InsertFilmUnderRace ==
    /\ [](\A f, g \in films : f.title = g.title => f = g)
    /\ [][\A c \in Sessions :
             InsertFilmStep(c)
             => IF ExactTitlePresent(c)
                THEN /\ films' = films
                     /\ last' = [op |-> "add", outcome |-> "error500"]
                     /\ pc'[c] = "idle"
                ELSE \/ films' = films \cup
                            {[id |-> sqlite_sequence.films + 1,
                              title |-> req[c].new_film]}
                     \/ /\ films' = films
                        /\ last' = [op |-> "add", outcome |-> "error500"]
                        /\ pc'[c] = "idle"
                        /\ AddReviewInsertFilm(c, FALSE)]_vars

C18_Witness ==
    \E f, g \in films :
        /\ f # g /\ f.title # g.title
        /\ SameTitleNoCase(f.title, g.title)
        /\ \A c \in Sessions : pc[c] = "add_film_id"

\* the create request of session c has stored an uploaded image and its
\* insert step is next
UploadStored(c) == pc[c] = "add_save" /\ req[c].filename # Null

\* session c takes its insert step and the insert fails
FailedInsertStep(c) ==
    /\ pc[c] = "add_save" /\ pc'[c] = "idle"
    /\ last'.outcome # "added"

\* session c takes the upload step of its create request and the file is
\* stored
UploadStep(c) == pc[c] = "add_upload" /\ pc'[c] = "add_save"

ReviewIds == {r.id : r \in reviews}

\* C20: a review row gets the user id of the session whose create request
\* inserts it, and no later step changes the user id of a row; the id of a
\* new row is larger than every id in the table and is not the id of a
\* deleted review, so no deleted id comes back. Hence, whatever other
\* requests ran in between, the row that a delete request removes after its
\* ownership check is a row of the user of that request.
C20_OwnerFixedIdsNotReused ==
    /\ [](deleted \cap ReviewIds = {})
    /\ [](\A c \in Sessions :
             pc[c] = "del_exec"
             => \A r \in reviews :
                   r.id = req[c].review_id => r.user_id = session[c].user_id)
    /\ [][\/ reviews' = reviews
          \/ /\ \A r \in reviews, q \in reviews' :
                   r.id = q.id => q.user_id = r.user_id
             /\ \A q \in reviews' :
                   q.id \notin ReviewIds
                   => /\ q.id \notin deleted
                      /\ \A r \in reviews : r.id < q.id
                      /\ \E c \in Sessions :
                            /\ pc[c] = "add_save" /\ pc'[c] = "idle"
                            /\ q.user_id = session[c].user_id
             /\ \A r \in reviews :
                   r \notin reviews'
                   => \E c \in Sessions :
                         /\ pc[c] = "del_exec" /\ pc'[c] = "idle"
                         /\ r.id = req[c].review_id
                         /\ r.user_id = session[c].user_id]_vars

\* a delete request passed its ownership check and has not executed yet;
\* meanwhile its review was deleted by another request, and a review of
\* another user was created, under a new id
C20_Witness ==
    \E c \in Sessions :
        /\ pc[c] = "del_exec"
        /\ req[c].review_id \in deleted
        /\ \E r \in reviews :
              /\ r.id > Len(SeedReviews)
              /\ r.user_id # session[c].user_id

====
